---- MODULE Spec2Model ----
(***************************************************************************)
(* The lifecycle handoff protocol of .plan/send_request.py and             *)
(* .lifecycle/send_response.py, modelled over an explicit filesystem tree. *)
(*                                                                         *)
(* A path is a sequence of segments relative to the project root; the     *)
(* filesystem fs maps every existing path to a node (a directory, or a    *)
(* regular file with its text).  Names, file texts and timestamps are     *)
(* strings, built and searched as the code builds and searches them.      *)
(***************************************************************************)
EXTENDS Naturals, Sequences, FiniteSets, TLC

VARIABLES
    fs,     \* the workspace: [path -> node]
    clock,  \* datetime.now(), in whole seconds since midnight
    last,   \* the most recent event: a command-line run with its outcome, or an edit
    prev,   \* summary of the event before `last`
    trip,   \* progress of a request/response round trip
    calls,  \* number of command-line runs so far
    edits,  \* number of planner/worker edits so far
    procs,  \* invocations in progress, when runs are followed step by step
    pg,     \* the FastGTD records of the owner: nodes, tags, node-tag associations
    imp     \* the run of the importer's main: where it is and its local variables

vars == <<fs, clock, last, prev, trip, calls, edits, procs, pg, imp>>

----------------------------------------------------------------------------
(* Bounds of the model *)

MaxCalls == 2
MaxEdits == 1
MaxClock == 1
MaxCrashes == 1

----------------------------------------------------------------------------
(* Strings *)

\* Python's `t in s` on str: t occurs in s as a contiguous substring.
Contains(s, t) ==
    \E i \in 1..(Len(s) + 1 - Len(t)) : SubSeq(s, i, i + Len(t) - 1) = t

Pad2(n) == IF n < 10 THEN "0" \o ToString(n) ELSE ToString(n)

\* datetime.now().strftime('%Y%m%d_%H%M%S') for second t of the day of the run.
Timestamp(t) ==
    "20250101_" \o Pad2(t \div 3600) \o Pad2((t \div 60) % 60) \o Pad2(t % 60)

----------------------------------------------------------------------------
(* Filesystem *)

Dir == [kind |-> "dir"]
File(text) == [kind |-> "file", text |-> text]

ProjectRoot == <<>>
NoPath == <<"">>    \* result of a lookup that fails on the way (ENOENT, ENOTDIR)

IsDirAt(f, p) == p \in DOMAIN f /\ f[p].kind = "dir"
IsFileAt(f, p) == p \in DOMAIN f /\ f[p].kind = "file"

Parent(p) == IF p = <<>> THEN p ELSE SubSeq(p, 1, Len(p) - 1)

\* The operating system's lookup of the segments `rest` from directory `cur`:
\* every segment is looked up in a directory, "." (and the empty segment that
\* pathlib drops when joining) stays and ".." goes up.
RECURSIVE Walk(_, _, _)
Walk(f, cur, rest) ==
    IF rest = <<>> THEN cur
    ELSE IF ~IsDirAt(f, cur) THEN NoPath
    ELSE LET seg == Head(rest) IN
         IF seg = "." \/ seg = "" THEN Walk(f, cur, Tail(rest))
         ELSE IF seg = ".." THEN Walk(f, Parent(cur), Tail(rest))
         ELSE Walk(f, Append(cur, seg), Tail(rest))

Resolve(f, p) == Walk(f, ProjectRoot, p)

\* Path.exists()
Exists(f, p) == Resolve(f, p) \in DOMAIN f

Put(f, p, n) == [q \in (DOMAIN f) \cup {p} |-> IF q = p THEN n ELSE f[q]]
Remove(f, p) == [q \in (DOMAIN f) \ {p} |-> f[q]]

\* Path.mkdir(exist_ok=True): FileNotFoundError without a parent directory,
\* FileExistsError when the path is a file.
Mkdir(f, p) ==
    LET q == Resolve(f, p) IN
    IF q = NoPath \/ IsFileAt(f, q) THEN [ok |-> FALSE, fs |-> f]
    ELSE IF IsDirAt(f, q) THEN [ok |-> TRUE, fs |-> f]
    ELSE IF ~IsDirAt(f, Parent(q)) THEN [ok |-> FALSE, fs |-> f]
    ELSE [ok |-> TRUE, fs |-> Put(f, q, Dir)]

Copy2NoOverwrite(f, src, dst) ==
    LET s == Resolve(f, src)
        d == Resolve(f, dst)
    IN  IF ~IsFileAt(f, s) \/ d = NoPath \/ ~IsDirAt(f, Parent(d)) \/ d \in DOMAIN f
        THEN [ok |-> FALSE, fs |-> f]
        ELSE [ok |-> TRUE, fs |-> Put(f, d, f[s])]

\* shutil.copy2(src, dst): dst is created or overwritten with src's text; a dst
\* that is a directory receives the file under src's own name; copying a file
\* onto itself raises SameFileError.
Copy2(f, src, dst) ==
    LET s == Resolve(f, src)
        d == Resolve(f, dst)
        t == IF IsDirAt(f, d) THEN Append(d, src[Len(src)]) ELSE d
    IN  IF ~IsFileAt(f, s) \/ d = NoPath \/ ~IsDirAt(f, Parent(t)) \/ IsDirAt(f, t)
           \/ s = t
        THEN [ok |-> FALSE, fs |-> f]
        ELSE [ok |-> TRUE, fs |-> Put(f, t, f[s])]

\* Path.unlink()
Unlink(f, p) ==
    LET q == Resolve(f, p) IN
    IF ~IsFileAt(f, q) THEN [ok |-> FALSE, fs |-> f]
    ELSE [ok |-> TRUE, fs |-> Remove(f, q)]

\* open(p, 'r').read()
ReadText(f, p) == f[Resolve(f, p)].text

----------------------------------------------------------------------------
(* Validation shared by both transfers *)

valid_teams == <<"dev", "test", "review", "doc">>

ValidTeamOrPlanner(team_member) ==
    team_member = "plan" \/ \E i \in 1..Len(valid_teams) : valid_teams[i] = team_member
ValidTeam(team_member) == \E i \in 1..Len(valid_teams) : valid_teams[i] = team_member

FolderNameWithoutSeparator(lifecycle_folder) ==
    ~(Contains(lifecycle_folder, "/") \/ Contains(lifecycle_folder, "\\"))
ValidFolderName(lifecycle_folder) ==
    ~(lifecycle_folder = ""
      \/ Contains(lifecycle_folder, "/")
      \/ Contains(lifecycle_folder, "\\"))

LifecycleDir(lifecycle_folder) == <<".lifecycle", lifecycle_folder>>
RoleDirShared(team_member) == <<".dev">>
RoleDir(team_member) == <<"." \o team_member>>
PlanRequest == <<".plan", "request.md">>
PlanResponse == <<".plan", "response.md">>
RoleRequest(team_member) == Append(RoleDir(team_member), "request.md")
RoleResponse(team_member) == Append(RoleDir(team_member), "response.md")
RequirementsFile(lifecycle_folder) == Append(LifecycleDir(lifecycle_folder), "requirements.md")

ExpectedReference(lifecycle_folder) ==
    ".lifecycle/" \o lifecycle_folder \o "/requirements.md"

RequestArchiveName(now, team_member) ==
    Timestamp(now) \o "_request_to_" \o team_member \o ".md"
ArchiveNameOfRequest(now, team_member) ==
    Timestamp(now) \o "_request_to_" \o team_member \o ".md"
ResponseArchiveName(now, team_member) ==
    Timestamp(now) \o "_response_from_" \o team_member \o ".md"

----------------------------------------------------------------------------
(* send_request.py *)

Outcome(f, ret) == [fs |-> f, ret |-> ret]

\* Lines 34-37: the staged request exists.
RequestAssumedStaged(f) == TRUE
RequestStaged(f) == Exists(f, PlanRequest)

\* Lines 40-44: the lifecycle folder exists.
LifecycleFolderExists(f, lifecycle_folder) == Exists(f, LifecycleDir(lifecycle_folder))

\* Lines 47-51: requirements.md exists in the lifecycle folder.
RequirementsNoGate(f, lifecycle_folder) == TRUE
RequirementsExist(f, lifecycle_folder) == Exists(f, RequirementsFile(lifecycle_folder))

\* Lines 54-61: request.md references the requirements file.
ReferencesAnyRequirements(request_content, lifecycle_folder) ==
    Contains(request_content, "/requirements.md")
ReferencesRequirements(request_content, lifecycle_folder) ==
    Contains(request_content, ExpectedReference(lifecycle_folder))

\* Lines 84-85: the staged original is deleted.
KeepSource(f, source_file) == [ok |-> TRUE, fs |-> f]
DeleteSource(f, source_file) == Unlink(f, source_file)

\* Lines 63-87: mkdir, copy to the inbox, copy to the archive, delete the original.
\* A step that raises ends the call there, with the earlier steps' effects kept.
DeliverRequest(f, team_member, lifecycle_folder, now) ==
    LET source_file == PlanRequest
        dest_dir == RoleDir(team_member)
        dest_file == RoleRequest(team_member)
        archive_file == Append(LifecycleDir(lifecycle_folder),
                               RequestArchiveName(now, team_member))
        s1 == Mkdir(f, dest_dir)
        s2 == Copy2(s1.fs, source_file, dest_file)
        s3 == Copy2(s2.fs, source_file, archive_file)
        s4 == DeleteSource(s3.fs, source_file)
    IN  IF ~s1.ok THEN Outcome(s1.fs, "raised")
        ELSE IF ~s2.ok THEN Outcome(s2.fs, "raised")
        ELSE IF ~s3.ok THEN Outcome(s3.fs, "raised")
        ELSE IF ~s4.ok THEN Outcome(s4.fs, "raised")
        ELSE Outcome(s4.fs, "True")

send_request(f, recipient_team_member, lifecycle_folder, now) ==
    IF ~ValidTeam(recipient_team_member) THEN Outcome(f, "False")
    ELSE IF ~ValidFolderName(lifecycle_folder) THEN Outcome(f, "False")
    ELSE IF ~RequestStaged(f) THEN Outcome(f, "False")
    ELSE IF ~LifecycleFolderExists(f, lifecycle_folder) THEN Outcome(f, "False")
    ELSE IF ~RequirementsExist(f, lifecycle_folder) THEN Outcome(f, "False")
    ELSE IF ~IsFileAt(f, Resolve(f, PlanRequest)) THEN Outcome(f, "raised")
    ELSE IF ~ReferencesRequirements(ReadText(f, PlanRequest), lifecycle_folder)
         THEN Outcome(f, "False")
    ELSE DeliverRequest(f, recipient_team_member, lifecycle_folder, now)

----------------------------------------------------------------------------
(* send_response.py *)

\* Lines 34-39: the staged response exists.
ResponseAssumedStaged(f, team_member) == TRUE
ResponseStaged(f, team_member) == Exists(f, RoleResponse(team_member))

\* Lines 46-52: the lifecycle folder exists; nothing is asked of its contents.
ResponseFolderWithRequirements(f, lifecycle_folder) ==
    Exists(f, RequirementsFile(lifecycle_folder))
ResponseFolderExists(f, lifecycle_folder) == Exists(f, LifecycleDir(lifecycle_folder))

\* Lines 70-73: the fulfilled request is removed from the role's directory.
KeepRequest(f, team_member) == [ok |-> TRUE, fs |-> f]
RemoveRequest(f, team_member) ==
    IF Exists(f, RoleRequest(team_member))
    THEN Unlink(f, RoleRequest(team_member))
    ELSE [ok |-> TRUE, fs |-> f]

\* Lines 54-75: copy to .plan, copy to the archive, delete the original, delete
\* the request.
DeliverResponse(f, team_member, lifecycle_folder, now) ==
    LET source_file == RoleResponse(team_member)
        dest_file == PlanResponse
        archive_file == Append(LifecycleDir(lifecycle_folder),
                               ResponseArchiveName(now, team_member))
        s1 == Copy2(f, source_file, dest_file)
        s2 == Copy2(s1.fs, source_file, archive_file)
        s3 == Unlink(s2.fs, source_file)
        s4 == RemoveRequest(s3.fs, team_member)
    IN  IF ~s1.ok THEN Outcome(s1.fs, "raised")
        ELSE IF ~s2.ok THEN Outcome(s2.fs, "raised")
        ELSE IF ~s3.ok THEN Outcome(s3.fs, "raised")
        ELSE IF ~s4.ok THEN Outcome(s4.fs, "raised")
        ELSE Outcome(s4.fs, "True")

send_response(f, submitting_team_member, lifecycle_folder, now) ==
    IF ~ValidTeam(submitting_team_member) THEN Outcome(f, "False")
    ELSE IF ~ValidFolderName(lifecycle_folder) THEN Outcome(f, "False")
    ELSE IF ~ResponseStaged(f, submitting_team_member) THEN Outcome(f, "False")
    ELSE IF ~ResponseFolderExists(f, lifecycle_folder) THEN Outcome(f, "False")
    ELSE DeliverResponse(f, submitting_team_member, lifecycle_folder, now)

----------------------------------------------------------------------------
(* The command line: sys.argv[1:], the call, sys.exit *)

\* sys.exit(0 if success else 1); an uncaught exception ends the interpreter
\* with status 1 as well.
ExitAlwaysZero(ret) == 0
ExitStatus(ret) == IF ret = "True" THEN 0 ELSE 1

\* The `__main__` block of send_request.py on the arguments argv.
MainSendRequest(f, argv, now) ==
    IF Len(argv) # 2 THEN Outcome(f, "usage")
    ELSE send_request(f, argv[1], argv[2], now)

\* The `__main__` block of send_response.py on the arguments argv.
MainSendResponse(f, argv, now) ==
    IF Len(argv) # 2 THEN Outcome(f, "usage")
    ELSE send_response(f, argv[1], argv[2], now)

----------------------------------------------------------------------------
(* The workspace and the people around the two commands *)

\* Arguments tried on the command line.
FolderArgs == {"demo", "other", "", "a/b", "a\\b", ".", ".."}
Argvs ==
    {<<"dev">>, <<"dev", "demo", "extra">>}
        \cup {<<"dev", u>> : u \in FolderArgs}
        \cup {<<"doc", "demo">>, <<"plan", "demo">>, <<"Dev", "demo">>}

\* Texts the planner stages as .plan/request.md and workers as response.md.
RequestTexts ==
    { "see .lifecycle/demo/requirements.md",
      "see .lifecycle/demo/requirements.md and .lifecycle/other/requirements.md",
      "see lifecycle/demo/requirements.md" }
ResponseTexts == {"done", "blocked"}
StagingRoles == {"dev"}

\* Lifecycle folders are made by the planner before any transfer: absent, a stray
\* plain file of that name, an empty folder, or a folder with requirements.md.
FolderStates == {"absent", "file", "empty", "ready"}

FolderTree(name, state) ==
    CASE state = "absent" -> <<>>
      [] state = "file"   -> (<<".lifecycle", name>> :> File("not a folder"))
      [] state = "empty"  -> (<<".lifecycle", name>> :> Dir)
      [] state = "ready"  -> (<<".lifecycle", name>> :> Dir)
                             @@ (<<".lifecycle", name, "requirements.md">>
                                   :> File("requirements of " \o name))

\* The project root holds .lifecycle (with send_response.py) and, unless the
\* planner's side is not set up, .plan (with send_request.py).
Workspace(has_plan, demo, other) ==
    (ProjectRoot :> Dir) @@ (<<".lifecycle">> :> Dir)
        @@ (IF has_plan THEN (<<".plan">> :> Dir) ELSE <<>>)
        @@ FolderTree("demo", demo) @@ FolderTree("other", other)

\* The workspace of a project in use: both folders ready for requests.
Ready == Workspace(TRUE, "ready", "ready")

\* Workspaces set up wrongly or not completely.
Unready ==
    { Workspace(TRUE, "empty", "absent"),
      Workspace(TRUE, "file", "absent"),
      Workspace(TRUE, "absent", "absent"),
      Workspace(FALSE, "ready", "absent") }

\* The planner has written .plan/request.md with this text.
WithRequest(f, text) == Put(f, PlanRequest, File(text))

\* A worker has written response.md with this text in the role's own directory.
WithResponse(f, role, text) ==
    Put(Mkdir(f, RoleDir(role)).fs, RoleResponse(role), File(text))

\* The workspaces a run starts from.  The ready one comes with or without a
\* staged request and a staged response; the others come with both where they can
\* hold them, so that nothing but the folder stands in the way of a transfer.
Workspaces ==
    LET a == {Ready} \cup {WithRequest(Ready, text) : text \in RequestTexts}
        b == {IF IsDirAt(f, <<".plan">>)
              THEN WithRequest(f, "see .lifecycle/demo/requirements.md")
              ELSE f : f \in Unready}
    IN  a \cup {WithResponse(f, "dev", "done") : f \in a \cup b}

NoEvent ==
    [op |-> "none", argv |-> <<>>, ret |-> "none", exit |-> 0, now |-> 0,
     before |-> <<>>]
\* What is remembered of the event before the last one: a transfer that
\* succeeded, by its command and arguments.
NoSummary == [op |-> "none", argv |-> <<>>]
Summary(e) == IF e.ret = "True" THEN [op |-> e.op, argv |-> e.argv] ELSE NoSummary
NoTrip == [phase |-> "none", role |-> "", unit |-> ""]

Children(f, d) ==
    {p \in DOMAIN f : Len(p) = Len(d) + 1 /\ SubSeq(p, 1, Len(d)) = d}

\* An invocation followed step by step: its command and arguments, where it is
\* (`at` indexes the command's steps), how it ended, the timestamp it took, what
\* it has written so far and what `request_file.exists()` answered.  crashedAt,
\* retried and peer remember where it was interrupted, whether it is a re-run,
\* and where the other invocation was when this one wrote its destination copy.
ProcIds == {1, 2}
IdleProc ==
    [op |-> "none", role |-> "", unit |-> "", status |-> "idle", at |-> 0,
     ret |-> "none", now |-> 0, done |-> {}, found |-> TRUE,
     crashedAt |-> "none", retried |-> FALSE, peer |-> "none"]

\* The importer is not part of a handoff: no source records, no run.
NoSource == [nodes |-> <<>>, tags |-> <<>>, node_tags |-> <<>>]
IdleImport ==
    [pc |-> "idle", backup_path |-> <<>>, nodes |-> <<>>, tags |-> <<>>,
     node_tags |-> <<>>, backed |-> FALSE, wrote |-> FALSE]

Init ==
    /\ fs \in Workspaces
    /\ clock = 0
    /\ last = NoEvent
    /\ prev = NoSummary
    /\ trip = NoTrip
    /\ calls = 0
    /\ edits = 0
    /\ procs = [p \in ProcIds |-> IdleProc]
    /\ pg = NoSource
    /\ imp = IdleImport

\* The planner writes .plan/request.md.
StageRequest(text) ==
    /\ edits < MaxEdits
    /\ IsDirAt(fs, <<".plan">>)
    /\ fs' = WithRequest(fs, text)
    /\ last' = [NoEvent EXCEPT !.op = "stage_request"]
    /\ prev' = Summary(last)
    /\ trip' = NoTrip
    /\ edits' = edits + 1
    /\ UNCHANGED <<clock, calls, procs, pg, imp>>

\* A worker writes response.md in the role's own directory.
StageResponse(role, text) ==
    /\ edits < MaxEdits
    /\ fs' = WithResponse(fs, role, text)
    /\ last' = [NoEvent EXCEPT !.op = "stage_response", !.argv = <<role>>]
    /\ prev' = Summary(last)
    /\ trip' = IF trip.phase = "sent" /\ trip.role = role
               THEN [trip EXCEPT !.phase = "staged"]
               ELSE NoTrip
    /\ edits' = edits + 1
    /\ UNCHANGED <<clock, calls, procs, pg, imp>>

\* A second passes.
Tick ==
    /\ clock < MaxClock
    /\ clock' = clock + 1
    /\ UNCHANGED <<fs, last, prev, trip, calls, edits, procs, pg, imp>>

\* python3 .plan/send_request.py argv...
RunSendRequest(argv) ==
    /\ calls < MaxCalls
    /\ IsDirAt(fs, <<".plan">>)
    /\ \E out \in {MainSendRequest(fs, argv, clock)} :
       /\ fs' = out.fs
       /\ last' = [op |-> "send_request", argv |-> argv, ret |-> out.ret,
                   exit |-> ExitStatus(out.ret), now |-> clock, before |-> fs]
       /\ trip' = IF /\ out.ret = "True"
                     /\ {p[Len(p)] : p \in Children(fs, Resolve(fs, LifecycleDir(argv[2])))}
                            = {"requirements.md"}
                  THEN [phase |-> "sent", role |-> argv[1], unit |-> argv[2]]
                  ELSE NoTrip
    /\ prev' = Summary(last)
    /\ calls' = calls + 1
    /\ UNCHANGED <<clock, edits, procs, pg, imp>>

\* python3 .lifecycle/send_response.py argv...
RunSendResponse(argv) ==
    /\ calls < MaxCalls
    /\ \E out \in {MainSendResponse(fs, argv, clock)} :
       /\ fs' = out.fs
       /\ last' = [op |-> "send_response", argv |-> argv, ret |-> out.ret,
                   exit |-> ExitStatus(out.ret), now |-> clock, before |-> fs]
       /\ trip' = IF /\ trip.phase = "staged"
                     /\ argv = <<trip.role, trip.unit>>
                  THEN [trip EXCEPT !.phase = "done"]
                  ELSE NoTrip
    /\ prev' = Summary(last)
    /\ calls' = calls + 1
    /\ UNCHANGED <<clock, edits, procs, pg, imp>>

Next ==
    \/ \E text \in RequestTexts : StageRequest(text)
    \/ \E role \in StagingRoles, text \in ResponseTexts : StageResponse(role, text)
    \/ Tick
    \/ \E argv \in Argvs : RunSendRequest(argv)
    \/ \E argv \in Argvs : RunSendResponse(argv)

Spec == Init /\ [][Next]_vars

----------------------------------------------------------------------------
(* Vocabulary of the properties *)

IsRunOf(op) == last.op = op /\ Len(last.argv) = 2
IsRun == IsRunOf("send_request") \/ IsRunOf("send_response")
Role == last.argv[1]
Unit == last.argv[2]

TheRoles == {"dev", "test", "review", "doc"}
BadFolderNames == {"", "a/b", "a\\b"}

\* Which folders' requirements files a staged text names, read off the text.
Mentions(text, unit) ==
    \/ text = "see .lifecycle/demo/requirements.md" /\ unit = "demo"
    \/ /\ text = "see .lifecycle/demo/requirements.md and .lifecycle/other/requirements.md"
       /\ unit \in {"demo", "other"}

EndsWith(s, suffix) ==
    Len(s) >= Len(suffix) /\ SubSeq(s, Len(s) - Len(suffix) + 1, Len(s)) = suffix

\* The entries of the folder .lifecycle/<unit>/ named <15 characters><suffix>.
ArchiveEntries(f, unit, suffix) ==
    {p \in Children(f, Resolve(f, <<".lifecycle", unit>>)) :
        EndsWith(p[Len(p)], suffix) /\ Len(p[Len(p)]) = 15 + Len(suffix)}

InboxDir(role) == <<"." \o role>>
Inbox(role) == <<"." \o role, "request.md">>
Outbox(role) == <<"." \o role, "response.md">>

----------------------------------------------------------------------------
(* C1: a run of send_request or send_response with a role outside
   {dev, test, review, doc} returns False and leaves the whole workspace as it
   was. *)
C1_InvalidRoleRejected ==
    (IsRun /\ Role \notin TheRoles) => (last.ret = "False" /\ fs = last.before)

C1_Witness ==
    /\ IsRunOf("send_request") /\ last.argv = <<"plan", "demo">>
    /\ <<".plan", "request.md">> \in DOMAIN last.before
    /\ Mentions(last.before[<<".plan", "request.md">>].text, "demo")
    /\ <<".lifecycle", "demo", "requirements.md">> \in DOMAIN last.before
    /\ last.ret = "False"

(* C2: with a valid role, a run of either command with a folder name that is
   empty or contains '/' or '\' returns False and leaves the workspace as it
   was. *)
C2_InvalidFolderRejected ==
    (IsRun /\ Role \in TheRoles /\ Unit \in BadFolderNames)
        => (last.ret = "False" /\ fs = last.before)

C2_Witness ==
    /\ IsRunOf("send_response") /\ last.argv = <<"dev", "">>
    /\ <<".dev", "response.md">> \in DOMAIN last.before
    /\ <<".plan">> \in DOMAIN last.before
    /\ last.ret = "False"

----------------------------------------------------------------------------
\* The six preconditions of send_request on the workspace b, each stated on the
\* workspace itself.
RoleOk == Role \in TheRoles
FolderNameOk == Unit \notin BadFolderNames
StagedIn(b) == <<".plan", "request.md">> \in DOMAIN b
FolderIn(b) == Exists(b, <<".lifecycle", Unit>>)
RequirementsIn(b) == Exists(b, <<".lifecycle", Unit, "requirements.md">>)
ReferenceIn(b) == StagedIn(b) /\ Mentions(b[<<".plan", "request.md">>].text, Unit)

(* C3: when any of the six preconditions of send_request fails, the run returns
   False and nothing has changed: no inbox directory made, no inbox copy, no
   archive entry, and .plan/request.md as it was. *)
C3_FailedPreconditionNoEffect ==
    (/\ IsRunOf("send_request")
     /\ ~(/\ RoleOk /\ FolderNameOk /\ StagedIn(last.before) /\ FolderIn(last.before)
          /\ RequirementsIn(last.before) /\ ReferenceIn(last.before)))
        => /\ last.ret = "False"
           /\ fs = last.before

C3_Witness ==
    /\ IsRunOf("send_request") /\ last.argv = <<"doc", "demo">>
    /\ RequirementsIn(last.before) /\ StagedIn(last.before)
    /\ ~ReferenceIn(last.before)
    /\ last.ret = "False"
    /\ <<".doc">> \notin DOMAIN fs
    /\ fs[<<".plan", "request.md">>].text = "see lifecycle/demo/requirements.md"

(* C4: send_request returns False whenever .lifecycle/<unit>/requirements.md
   is absent, whatever else holds. *)
C4_RequirementsGate ==
    (IsRunOf("send_request") /\ ~RequirementsIn(last.before)) => last.ret = "False"

C4_Witness ==
    /\ IsRunOf("send_request") /\ last.argv = <<"dev", "demo">>
    /\ IsDirAt(last.before, <<".lifecycle", "demo">>)
    /\ ReferenceIn(last.before)
    /\ ~RequirementsIn(last.before)
    /\ last.ret = "False"

(* C5: send_request returns False whenever the staged text does not contain
   '.lifecycle/<unit>/requirements.md' for the unit given, and with the other
   five preconditions met it returns True exactly when the text contains it. *)
C5_ReferenceDecides ==
    (IsRunOf("send_request") /\ StagedIn(last.before))
        => /\ ~ReferenceIn(last.before) => last.ret = "False"
           /\ (RoleOk /\ FolderNameOk /\ FolderIn(last.before) /\ RequirementsIn(last.before))
                  => (last.ret = "True" <=> ReferenceIn(last.before))

C5_Witness ==
    /\ IsRunOf("send_request") /\ last.argv = <<"dev", "other">>
    /\ StagedIn(last.before) /\ RequirementsIn(last.before)
    /\ last.before[<<".plan", "request.md">>].text = "see .lifecycle/demo/requirements.md"
    /\ last.ret = "False"

----------------------------------------------------------------------------
(* C6: after a run of send_request that returned True, .plan/request.md is
   gone, .<role>/request.md holds the staged text (the directory made if need
   be, an earlier request replaced), and .lifecycle/<unit>/ holds an entry
   <TS>_request_to_<role>.md with the staged text. *)
C6_RequestDelivered ==
    (IsRunOf("send_request") /\ last.ret = "True")
        => /\ <<".plan", "request.md">> \notin DOMAIN fs
           /\ IsDirAt(fs, InboxDir(Role))
           /\ Inbox(Role) \in DOMAIN fs
           /\ fs[Inbox(Role)] = last.before[<<".plan", "request.md">>]
           /\ \E p \in ArchiveEntries(fs, Unit, "_request_to_" \o Role \o ".md") :
                  fs[p] = last.before[<<".plan", "request.md">>]

C6_Witness ==
    /\ IsRunOf("send_request") /\ last.ret = "True"
    /\ Inbox(Role) \in DOMAIN last.before
    /\ last.before[Inbox(Role)] # fs[Inbox(Role)]

(* C7: after a run of send_response that returned True, .<role>/response.md is
   gone, .plan/response.md holds the staged text, .lifecycle/<unit>/ holds an
   entry <TS>_response_from_<role>.md with that text, and .<role>/request.md
   does not exist, whether it did before or not. *)
C7_ResponseDelivered ==
    (IsRunOf("send_response") /\ last.ret = "True")
        => /\ Outbox(Role) \notin DOMAIN fs
           /\ <<".plan", "response.md">> \in DOMAIN fs
           /\ fs[<<".plan", "response.md">>] = last.before[Outbox(Role)]
           /\ \E p \in ArchiveEntries(fs, Unit, "_response_from_" \o Role \o ".md") :
                  fs[p] = last.before[Outbox(Role)]
           /\ Inbox(Role) \notin DOMAIN fs

C7_Witness ==
    /\ IsRunOf("send_response") /\ last.ret = "True"
    /\ Inbox(Role) \in DOMAIN last.before
    /\ <<".plan", "response.md">> \notin DOMAIN last.before

(* C8: send_response run again right after a send_response that returned True,
   same role and unit, nothing staged in between, returns False because
   .<role>/response.md is missing, and changes nothing: .plan/response.md and
   the archive stay as they were. *)
C8_RetryFailsCleanly ==
    (IsRunOf("send_response") /\ prev = [op |-> "send_response", argv |-> last.argv])
        => /\ Outbox(Role) \notin DOMAIN last.before
           /\ last.ret = "False"
           /\ fs = last.before

C8_Witness ==
    /\ IsRunOf("send_response") /\ prev = [op |-> "send_response", argv |-> last.argv]
    /\ last.ret = "False"
    /\ fs[<<".plan", "response.md">>].text = "done"
    /\ ArchiveEntries(fs, Unit, "_response_from_" \o Role \o ".md") # {}

(* C9: round trip.  From a folder holding only requirements.md, a send_request
   that returned True, then the worker staging response.md, then send_response
   for the same role and unit: the second returns True too, no request.md is
   left in .plan or the role's directory, the role's response.md is gone,
   .plan/response.md exists, and the folder holds exactly one
   *_request_to_<role>.md and one *_response_from_<role>.md, also within one
   clock second. *)
C9_RoundTrip ==
    trip.phase = "done"
        => /\ last.ret = "True"
           /\ <<".plan", "request.md">> \notin DOMAIN fs
           /\ Inbox(trip.role) \notin DOMAIN fs
           /\ Outbox(trip.role) \notin DOMAIN fs
           /\ <<".plan", "response.md">> \in DOMAIN fs
           /\ Cardinality(ArchiveEntries(fs, trip.unit,
                                         "_request_to_" \o trip.role \o ".md")) = 1
           /\ Cardinality(ArchiveEntries(fs, trip.unit,
                                         "_response_from_" \o trip.role \o ".md")) = 1

C9_Witness ==
    /\ trip.phase = "done"
    /\ clock = 0
    /\ last.ret = "True"

----------------------------------------------------------------------------
\* The transfer of the last run has happened: the staged file is gone from its
\* origin and its text is at the destination.
Transferred ==
    /\ Len(last.argv) = 2
    /\ \/ /\ last.op = "send_request"
          /\ <<".plan", "request.md">> \in DOMAIN last.before
          /\ <<".plan", "request.md">> \notin DOMAIN fs
          /\ Inbox(Role) \in DOMAIN fs
          /\ fs[Inbox(Role)] = last.before[<<".plan", "request.md">>]
       \/ /\ last.op = "send_response"
          /\ Outbox(Role) \in DOMAIN last.before
          /\ Outbox(Role) \notin DOMAIN fs
          /\ <<".plan", "response.md">> \in DOMAIN fs
          /\ fs[<<".plan", "response.md">>] = last.before[Outbox(Role)]

(* C10: a command-line run exits with 0 exactly when the transfer happened and
   with 1 otherwise; with a number of arguments other than two it exits with 1
   and writes nothing. *)
C10_ExitStatus ==
    last.op \in {"send_request", "send_response"}
        => /\ last.exit \in {0, 1}
           /\ last.exit = 0 <=> Transferred
           /\ Len(last.argv) # 2 => (last.exit = 1 /\ fs = last.before)

C10_Witness ==
    /\ last.op = "send_request"
    /\ last.argv = <<"dev", "demo", "extra">>
    /\ <<".plan", "request.md">> \in DOMAIN last.before
    /\ Mentions(last.before[<<".plan", "request.md">>].text, "demo")
    /\ <<".lifecycle", "demo", "requirements.md">> \in DOMAIN last.before
    /\ last.exit = 1

----------------------------------------------------------------------------
\* Every archive entry of the workspace, wherever it lies.
IsArchiveName(name) ==
    \E r \in TheRoles :
        \/ EndsWith(name, "_request_to_" \o r \o ".md")
        \/ EndsWith(name, "_response_from_" \o r \o ".md")

AllArchive(f) == {p \in DOMAIN f : Len(p) >= 1 /\ IsArchiveName(p[Len(p)])}

UnderLifecycle(p) == Len(p) >= 1 /\ p[1] = ".lifecycle"

(* C11: every failing run of send_request or send_response returns False; no
   exception leaves the function, also when a copy, archive or delete step
   fails after the checks have passed. *)
C11_NoExceptionEscapes ==
    IsRun => last.ret \in {"True", "False"}

(* C12: the archive is append-only: a run that returned True has added exactly
   one archive entry, and every entry there was before is still there with the
   text it had, also for a second transfer of the same direction, role and unit
   within the same second. *)
C12_ArchiveAppendOnly ==
    (IsRun /\ last.ret = "True")
        => /\ \A p \in AllArchive(last.before) : p \in DOMAIN fs /\ fs[p] = last.before[p]
           /\ Cardinality(AllArchive(fs)) = Cardinality(AllArchive(last.before)) + 1

\* What C13 asks of the workspace: a valid role and folder name, a staged
\* response, and .lifecycle/<unit> a directory.
ResponseReady ==
    /\ IsRunOf("send_response")
    /\ RoleOk /\ FolderNameOk
    /\ Outbox(Role) \in DOMAIN last.before
    /\ IsDirAt(last.before, Resolve(last.before, <<".lifecycle", Unit>>))

(* C13 as stated: send_response with a valid role and folder name, a staged
   response and an existing folder directory returns True, with or without
   requirements.md. *)
C13_Original ==
    ResponseReady => last.ret = "True"

(* C13 as amended: the same, provided the .plan directory exists. *)
C13_NoRequirementsGate ==
    (ResponseReady /\ IsDirAt(last.before, <<".plan">>)) => last.ret = "True"

C13_Witness ==
    /\ ResponseReady /\ Unit = "demo"
    /\ <<".lifecycle", "demo", "requirements.md">> \notin DOMAIN last.before
    /\ last.ret = "True"

----------------------------------------------------------------------------
\* The folder name under which a transfer reaches the directory of entry p: a
\* folder of .lifecycle by its name, .lifecycle itself as ".", the root as "..".
FolderOf(p) ==
    IF Len(p) = 3 /\ p[1] = ".lifecycle" THEN p[2]
    ELSE IF Len(p) = 2 /\ p[1] = ".lifecycle" THEN "."
    ELSE IF Len(p) = 1 THEN ".."
    ELSE ""

(* C18: every *_request_to_<role>.md entry of a folder .lifecycle/<unit>/ names
   '.lifecycle/<unit>/requirements.md' in its text and lies in a folder that
   holds requirements.md; and a send_request that returned True has delivered to
   the inbox a text naming the requirements file of its unit, whose folder held
   requirements.md when the run began. *)
C18_RequirementsGateHolds ==
    /\ \A p \in DOMAIN fs :
          (Len(p) >= 1 /\ \E r \in TheRoles : EndsWith(p[Len(p)], "_request_to_" \o r \o ".md"))
              => /\ Mentions(fs[p].text, FolderOf(p))
                 /\ Exists(fs, <<".lifecycle", FolderOf(p), "requirements.md">>)
    /\ (IsRunOf("send_request") /\ last.ret = "True")
          => /\ Mentions(fs[Inbox(Role)].text, Unit)
             /\ RequirementsIn(last.before)

C18_Witness ==
    /\ IsRunOf("send_request") /\ last.ret = "True" /\ Unit = "other"
    /\ ArchiveEntries(fs, "other", "_request_to_dev.md") # {}
    /\ ArchiveEntries(fs, "demo", "_request_to_dev.md") # {}

(* C19: every archive entry lies in a directory that is a direct child of
   .lifecycle, whatever valid folder name ('.' and '..' included) the transfer
   was given; none lies in .lifecycle itself or in the project root. *)
C19_ArchiveInsideAFolder ==
    \A p \in AllArchive(fs) : Len(p) = 3 /\ p[1] = ".lifecycle"

(* C20: a run of either command deletes nothing under .lifecycle and changes
   no file there (folders and requirements.md included); all it does there is
   add one archive entry to the folder it was given. *)
C20_LifecycleOnlyGrows ==
    IsRun =>
        /\ \A p \in DOMAIN last.before :
              UnderLifecycle(p) => (p \in DOMAIN fs /\ fs[p] = last.before[p])
        /\ \A p \in (DOMAIN fs) \ (DOMAIN last.before) :
              UnderLifecycle(p) => (p \in AllArchive(fs) /\ Len(p) = 3 /\ p[2] = Unit)
        /\ Cardinality({p \in (DOMAIN fs) \ (DOMAIN last.before) : UnderLifecycle(p)}) <= 1

----------------------------------------------------------------------------
(* The two commands followed statement by statement.  Each filesystem call of
   a run is a step of its own, so that another invocation, or an interruption
   of the process, can come between two of them. *)

\* send_response.py after the argument checks of lines 17-28: the exists()
\* tests, the timestamp and the filesystem calls, in source order.
ResponseStepsDeleteFirst ==
    <<"check_source", "check_folder", "timestamp", "unlink", "copy", "archive",
      "check_request", "unlink_request">>
ResponseStepsNoCleanup ==
    <<"check_source", "check_folder", "timestamp", "copy", "archive", "unlink">>
ResponseSteps ==
    <<"check_source", "check_folder", "timestamp", "copy", "archive", "unlink",
      "check_request", "unlink_request">>

\* send_request.py after the argument checks of lines 18-28.
RequestStepsCopyFirst ==
    <<"check_source", "check_folder", "mkdir", "timestamp", "copy",
      "check_requirements", "read", "archive", "unlink">>
RequestSteps ==
    <<"check_source", "check_folder", "check_requirements", "read", "mkdir",
      "timestamp", "copy", "archive", "unlink">>

Steps(op) == IF op = "send_request" THEN RequestSteps ELSE ResponseSteps

\* source_file, dest_file and archive_file of the invocation pr.
SourceOf(pr) ==
    IF pr.op = "send_request" THEN PlanRequest ELSE RoleResponse(pr.role)
DestOf(pr) ==
    IF pr.op = "send_request" THEN RoleRequest(pr.role) ELSE PlanResponse
ArchiveOf(pr) ==
    Append(LifecycleDir(pr.unit),
           IF pr.op = "send_request" THEN RequestArchiveName(pr.now, pr.role)
           ELSE ResponseArchiveName(pr.now, pr.role))

\* A test that passes or a call that returns lets the run go on; a test that
\* fails returns False; a call that raises ends the run with the exception.
Passed(f, test) == IF test THEN Outcome(f, "go") ELSE Outcome(f, "False")
Called(s) == IF s.ok THEN Outcome(s.fs, "go") ELSE Outcome(s.fs, "raised")

\* One statement of the invocation pr on the workspace f.
DoStep(f, pr, step) ==
    CASE step = "check_source" ->
            Passed(f, IF pr.op = "send_request" THEN RequestStaged(f)
                      ELSE ResponseStaged(f, pr.role))
      [] step = "check_folder" ->
            Passed(f, IF pr.op = "send_request" THEN LifecycleFolderExists(f, pr.unit)
                      ELSE ResponseFolderExists(f, pr.unit))
      [] step = "check_requirements" -> Passed(f, RequirementsExist(f, pr.unit))
      [] step = "read" ->
            IF ~IsFileAt(f, Resolve(f, PlanRequest)) THEN Outcome(f, "raised")
            ELSE Passed(f, ReferencesRequirements(ReadText(f, PlanRequest), pr.unit))
      [] step = "mkdir" -> Called(Mkdir(f, RoleDir(pr.role)))
      [] step = "timestamp" -> Outcome(f, "go")
      [] step = "copy" -> Called(Copy2(f, SourceOf(pr), DestOf(pr)))
      [] step = "archive" -> Called(Copy2(f, SourceOf(pr), ArchiveOf(pr)))
      [] step = "unlink" -> Called(DeleteSource(f, SourceOf(pr)))
      [] step = "check_request" ->
            IF Exists(f, RoleRequest(pr.role)) THEN Outcome(f, "go")
            ELSE Outcome(f, "True")
      [] step = "unlink_request" -> Called(Unlink(f, RoleRequest(pr.role)))

\* The effects of a transfer on the workspace.
Effects == {"copy", "archive", "unlink", "unlink_request"}

\* Where the invocation pr is, as another invocation finds it: before its first
\* exists() test, amid its run, or after its end.
Position(pr) ==
    IF pr.status = "idle" \/ (pr.status = "running" /\ pr.at = 1) THEN "before"
    ELSE IF pr.status = "running" THEN "amid"
    ELSE "after"

\* How far the copy/archive/delete sequence has come, by what it has done.
Reached(done) ==
    IF "unlink" \in done THEN "after_delete"
    ELSE IF "copy" \in done THEN "before_delete"
    ELSE "before_copy"

\* Commands given while runs are followed step by step.
StepRoles == {"dev"}
StepUnits == {"demo", ""}
StepOps == {"send_request", "send_response"}

\* The workspaces they start from: a project in use with a request and a
\* response staged, its inbox empty or holding the request being answered; and
\* one whose folder name is taken by a plain file.
Answering ==
    WithResponse(WithRequest(Ready, "see .lifecycle/demo/requirements.md"), "dev", "done")
StepWorkspaces ==
    { Answering,
      Put(Answering, RoleRequest("dev"),
          File("see .lifecycle/demo/requirements.md and .lifecycle/other/requirements.md")),
      WithResponse(WithRequest(Workspace(TRUE, "file", "absent"),
                               "see .lifecycle/demo/requirements.md"), "dev", "done") }

InitSteps ==
    /\ fs \in StepWorkspaces
    /\ clock = 0
    /\ last = [NoEvent EXCEPT !.before = fs]
    /\ prev = NoSummary
    /\ trip = NoTrip
    /\ calls = 0
    /\ edits = 0
    /\ procs = [p \in ProcIds |-> IdleProc]
    /\ pg = NoSource
    /\ imp = IdleImport

\* The interpreter starts the command: lines 17-28 check the arguments.
\* Invocations are numbered in the order they start.
Start(p, op, role, unit) ==
    /\ procs[p].status = "idle"
    /\ \A q \in ProcIds : q < p => procs[q].status # "idle"
    /\ op = "send_request" => IsDirAt(fs, <<".plan">>)
    /\ procs' = [procs EXCEPT ![p] =
          IF ValidTeam(role) /\ ValidFolderName(unit)
          THEN [IdleProc EXCEPT !.op = op, !.role = role, !.unit = unit,
                                !.status = "running", !.at = 1]
          ELSE [IdleProc EXCEPT !.op = op, !.role = role, !.unit = unit,
                                !.status = "ended", !.ret = "False"]]
    /\ UNCHANGED <<fs, clock, last, prev, trip, calls, edits, pg, imp>>

\* The invocation executes its next statement.
Step(p) ==
    /\ procs[p].status = "running"
    /\ LET pr == procs[p]
           steps == Steps(pr.op)
           step == steps[pr.at]
           r == DoStep(fs, pr, step)
           noted == [pr EXCEPT
                       !.now = IF step = "timestamp" THEN clock ELSE @,
                       !.done = IF r.ret = "go" /\ step \in Effects
                                THEN @ \cup {step} ELSE @,
                       !.found = IF step = "check_request" THEN r.ret = "go" ELSE @,
                       !.peer = IF step = "copy"
                                THEN Position(procs[CHOOSE q \in ProcIds : q # p])
                                ELSE @]
       IN  /\ fs' = r.fs
           /\ procs' = [procs EXCEPT ![p] =
                 IF r.ret # "go"
                 THEN [noted EXCEPT !.status = "ended", !.ret = r.ret]
                 ELSE IF pr.at = Len(steps)
                 THEN [noted EXCEPT !.status = "ended", !.ret = "True"]
                 ELSE [noted EXCEPT !.at = @ + 1]]
    /\ UNCHANGED <<clock, last, prev, trip, calls, edits, pg, imp>>

\* The process is interrupted (killed, power lost) before its next statement.
\* A re-run is let run to its end.
Crash(p) ==
    /\ procs[p].status = "running"
    /\ ~procs[p].retried
    /\ Cardinality({q \in ProcIds : procs[q].crashedAt # "none"}) < MaxCrashes
    /\ procs' = [procs EXCEPT ![p] =
          [@ EXCEPT !.status = "crashed", !.ret = "interrupted",
                    !.crashedAt = Reached(procs[p].done)]]
    /\ UNCHANGED <<fs, clock, last, prev, trip, calls, edits, pg, imp>>

\* The operator runs the interrupted command again, with the same arguments.
Restart(p) ==
    /\ procs[p].status = "crashed"
    /\ procs' = [procs EXCEPT ![p] =
          [@ EXCEPT !.status = "running", !.ret = "none", !.at = 1, !.done = {},
                    !.found = TRUE, !.retried = TRUE]]
    /\ UNCHANGED <<fs, clock, last, prev, trip, calls, edits, pg, imp>>

NextSteps ==
    \/ \E p \in ProcIds, op \in StepOps, role \in StepRoles, unit \in StepUnits :
          Start(p, op, role, unit)
    \/ \E p \in ProcIds : Step(p)
    \/ \E p \in ProcIds : Crash(p)
    \/ \E p \in ProcIds : Restart(p)
    \/ Tick

SpecSteps == InitSteps /\ [][NextSteps]_vars

----------------------------------------------------------------------------
(* Vocabulary of the properties of runs followed step by step *)

\* The invocation p has the workspace to itself: no other one has started, so
\* it began in the workspace last.before.
Solo(p) == \A q \in ProcIds \ {p} : procs[q].status = "idle"

HoldsText(f, path, text) == IsFileAt(f, path) /\ f[path].text = text

\* The effects of a finished transfer: all three, and the removal of the
\* request when send_response found one.
Complete(pr) ==
    pr.done = {"copy", "archive", "unlink"}
                 \cup (IF pr.op = "send_response" /\ pr.found
                       THEN {"unlink_request"} ELSE {})

\* What the same command does to the workspace f when nothing interrupts it.
Uninterrupted(f, pr) ==
    IF pr.op = "send_request" THEN send_request(f, pr.role, pr.unit, pr.now)
    ELSE send_response(f, pr.role, pr.unit, pr.now)

WithoutArchive(f) == [p \in (DOMAIN f) \ AllArchive(f) |-> f[p]]

(* C14: in a run of either command on its own, the staged source is deleted
   only after the destination copy and the archive copy were written; at every
   point, interrupted or not, the staged text is at the source or at the
   destination; and after an interruption between the copy and the delete it
   is at both. *)
C14_CopyThenDelete ==
    \A p \in ProcIds :
        LET pr == procs[p] IN
        (pr.status # "idle" /\ Solo(p) /\ SourceOf(pr) \in DOMAIN last.before) =>
            LET text == last.before[SourceOf(pr)].text IN
            /\ "unlink" \in pr.done => {"copy", "archive"} \subseteq pr.done
            /\ HoldsText(fs, SourceOf(pr), text) \/ HoldsText(fs, DestOf(pr), text)
            /\ (pr.status = "crashed" /\ pr.crashedAt = "before_delete")
                  => HoldsText(fs, SourceOf(pr), text) /\ HoldsText(fs, DestOf(pr), text)

C14_Witness ==
    /\ Solo(1)
    /\ procs[1].op = "send_request" /\ procs[1].status = "crashed"
    /\ procs[1].done = {"copy", "archive"}
    /\ HoldsText(fs, <<".plan", "request.md">>, "see .lifecycle/demo/requirements.md")
    /\ HoldsText(fs, <<".dev", "request.md">>, "see .lifecycle/demo/requirements.md")

(* C15: whenever an invocation has ended, by returning, by an exception or by
   an interruption, it has made none of its effects or all of them. *)
C15_Original ==
    \A p \in ProcIds :
        procs[p].status \in {"ended", "crashed"}
            => (procs[p].done = {} \/ Complete(procs[p]))

(* C15, as the code has it: an invocation that returns False has made none of
   its effects and one that returns True has made all of them, also when two
   invocations interleave; on its own, the first leaves the workspace as it
   was and the second leaves the text at the destination and no source. *)
C15_AllOrNothingOnReturn ==
    \A p \in ProcIds :
        LET pr == procs[p] IN
        /\ (pr.status = "ended" /\ pr.ret = "False")
              => /\ pr.done = {}
                 /\ (Solo(p) /\ ~pr.retried) => fs = last.before
        /\ (pr.status = "ended" /\ pr.ret = "True")
              => /\ Complete(pr)
                 /\ (Solo(p) /\ ~pr.retried)
                       => /\ SourceOf(pr) \notin DOMAIN fs
                          /\ HoldsText(fs, DestOf(pr), last.before[SourceOf(pr)].text)
                          /\ ArchiveOf(pr) \in DOMAIN fs

C15_Witness ==
    /\ procs[1].status = "ended" /\ procs[1].ret = "True" /\ procs[1].peer = "amid"
    /\ procs[2].status = "ended" /\ procs[2].ret = "True" /\ procs[2].peer = "amid"
    /\ procs[1].op # procs[2].op
    /\ Complete(procs[1]) /\ Complete(procs[2])

\* The invocation p was interrupted, the same command was run again with
\* nothing else happening, and the command would have succeeded uninterrupted.
Retried(p) ==
    /\ Solo(p)
    /\ procs[p].retried /\ procs[p].status = "ended"
    /\ Uninterrupted(last.before, procs[p]).ret = "True"

\* The workspace is as an uninterrupted run leaves it, archive entries aside.
AsUninterrupted(p) ==
    LET pr == procs[p] IN
    /\ WithoutArchive(fs) = WithoutArchive(Uninterrupted(last.before, pr).fs)
    /\ HoldsText(fs, DestOf(pr), last.before[SourceOf(pr)].text)
    /\ SourceOf(pr) \notin DOMAIN fs
    /\ pr.op = "send_response" => RoleRequest(pr.role) \notin DOMAIN fs

(* C16: after an interruption at any point of the copy/archive/delete sequence
   and a re-run of the same command, the workspace is as after an
   uninterrupted successful run, archive entries aside. *)
C16_Original == \A p \in ProcIds : Retried(p) => AsUninterrupted(p)

(* C16, as the code has it: the re-run restores the state of an uninterrupted
   run after an interruption of send_request at any point, and of
   send_response at any point before response.md is deleted. *)
C16_RetryBeforeDelete ==
    \A p \in ProcIds :
        (Retried(p) /\ (procs[p].op = "send_request"
                        \/ procs[p].crashedAt # "after_delete"))
            => AsUninterrupted(p)

C16_Witness ==
    /\ Retried(1) /\ procs[1].op = "send_response"
    /\ procs[1].crashedAt = "before_delete" /\ procs[1].ret = "True"
    /\ <<".dev", "request.md">> \in DOMAIN last.before
    /\ <<".dev", "request.md">> \notin DOMAIN fs
    /\ HoldsText(fs, <<".plan", "response.md">>, "done")

\* A send_response p and a send_request q for the same role have both
\* returned True, neither of them a re-run.
BothDone(p, q) ==
    /\ procs[p].op = "send_response" /\ procs[q].op = "send_request"
    /\ procs[p].role = procs[q].role
    /\ procs[p].status = "ended" /\ procs[p].ret = "True" /\ ~procs[p].retried
    /\ procs[q].status = "ended" /\ procs[q].ret = "True" /\ ~procs[q].retried

(* C17: a request that send_request delivered while the send_response for the
   same role was running, after its exists() test of response.md and before its
   last step, is in the inbox when both have returned. *)
C17_Original ==
    \A p, q \in ProcIds :
        (BothDone(p, q) /\ procs[q].peer = "amid")
            => RoleRequest(procs[q].role) \in DOMAIN fs

(* C17, as the code has it: send_response removes whatever request.md is in
   the inbox at its last step, so a request delivered before that step, before
   or amid the run, is gone when both have returned; one delivered after
   send_response returned is there. *)
C17_RemovesWhatIsThere ==
    \A p, q \in ProcIds :
        BothDone(p, q) =>
            /\ procs[q].peer \in {"before", "amid"}
                  => RoleRequest(procs[q].role) \notin DOMAIN fs
            /\ procs[q].peer = "after"
                  => HoldsText(fs, RoleRequest(procs[q].role),
                               last.before[PlanRequest].text)

C17_Witness ==
    /\ BothDone(1, 2) /\ procs[2].peer = "amid"
    /\ <<".dev", "request.md">> \notin DOMAIN last.before
    /\ <<".dev", "request.md">> \notin DOMAIN fs
    /\ <<".plan", "request.md">> \notin DOMAIN fs

----------------------------------------------------------------------------
\* The path p is the same before and after the last run: there or not, and
\* with the same content.
Untouched(p) ==
    /\ p \in DOMAIN fs <=> p \in DOMAIN last.before
    /\ p \in DOMAIN fs => fs[p] = last.before[p]

\* The paths inside the directories of the roles other than r.
OtherRolesPaths(f, r) ==
    {p \in DOMAIN f : Len(p) >= 1 /\ \E o \in TheRoles \ {r} : p[1] = "." \o o}

(* C21: a run of send_request for role r and folder u changes nothing in the
   directory of another role, leaves .<r>/response.md and .plan/response.md as
   they were and adds nothing to a lifecycle folder other than u; a run of
   send_response for r and u changes nothing in the directory of another
   role, leaves .plan/request.md as it was and adds nothing to a lifecycle
   folder other than u. *)
C21_RoleIsolation ==
    IsRun =>
        /\ \A p \in OtherRolesPaths(fs, Role) \cup OtherRolesPaths(last.before, Role) :
              Untouched(p)
        /\ \A p \in (DOMAIN fs) \ (DOMAIN last.before) :
              (Len(p) = 3 /\ p[1] = ".lifecycle") => p[2] = Unit
        /\ IsRunOf("send_request")
              => Untouched(Outbox(Role)) /\ Untouched(<<".plan", "response.md">>)
        /\ IsRunOf("send_response") => Untouched(<<".plan", "request.md">>)

C21_Witness ==
    /\ IsRunOf("send_request") /\ last.argv = <<"dev", "demo">> /\ last.ret = "True"
    /\ <<".doc", "request.md">> \in DOMAIN last.before
    /\ <<".dev", "response.md">> \in DOMAIN last.before
    /\ <<".dev", "request.md">> \in DOMAIN fs

----------------------------------------------------------------------------
(* import_from_fastgtd.py and restore_from_backup.py.  Paths are relative to
   the user's home directory; a database file holds its tables as its text. *)

\* import_from_fastgtd.py lines 52-56.
Import_DIRECTGTD_DB_PATH ==
    <<"Library", "Containers", "com.zendegi.DirectGTD", "Data", "Library",
      "Application Support", "DirectGTD", "directgtd.sqlite">>
Import_BACKUP_DIR ==
    <<"Library", "Containers", "com.zendegi.DirectGTD", "Data", "Library",
      "Application Support", "DirectGTD", "backups">>

\* restore_from_backup.py lines 17-18.
Restore_DIRECTGTD_DB_PATH ==
    <<"Library", "Application Support", "DirectGTD", "directgtd.sqlite">>
Restore_BACKUP_DIR ==
    <<"Library", "Application Support", "DirectGTD", "backups">>

\* os.makedirs(p, exist_ok=True)
RECURSIVE MakedirsFrom(_, _, _)
MakedirsFrom(f, p, n) ==
    IF n > Len(p) THEN [ok |-> TRUE, fs |-> f]
    ELSE LET s == Mkdir(f, SubSeq(p, 1, n)) IN
         IF ~s.ok THEN s ELSE MakedirsFrom(s.fs, p, n + 1)
Makedirs(f, p) == MakedirsFrom(f, p, 1)

\* The tables of a DirectGTD database: sets of rows.
NULL == "NULL"
EmptyDb == [items |-> {}, tags |-> {}, item_tags |-> {}]

NODE_TYPE_MAPPING ==
    [task |-> "Task", note |-> "Note", folder |-> "Folder", template |-> "Template",
     project |-> "Project", heading |-> "Heading", link |-> "Link"]

\* INSERT INTO items: sqlite3.IntegrityError when the primary key is taken.
InsertItem(items, row) ==
    IF \E r \in items : r.id = row.id THEN [ok |-> FALSE, rows |-> items]
    ELSE [ok |-> TRUE, rows |-> items \cup {row}]

\* UPDATE items SET parent_id = ? WHERE id = ?
UpdateParent(items, parent_id, id) ==
    {IF r.id = id THEN [r EXCEPT !.parent_id = parent_id] ELSE r : r \in items}

\* import_items, lines 310-354: the first pass over nodes[i..].
RECURSIVE FirstPass(_, _, _, _)
FirstPass(items, nodes, i, imported_ids) ==
    IF i > Len(nodes) THEN [items |-> items, imported_ids |-> imported_ids]
    ELSE LET node == nodes[i] IN
         IF node.node_type \notin DOMAIN NODE_TYPE_MAPPING
         THEN FirstPass(items, nodes, i + 1, imported_ids)
         ELSE LET parent_id ==
                      IF node.parent_id # NULL /\ node.parent_id \notin imported_ids
                      THEN NULL ELSE node.parent_id
                  ins == InsertItem(items,
                             [id |-> node.id, title |-> node.title,
                              item_type |-> NODE_TYPE_MAPPING[node.node_type],
                              parent_id |-> parent_id])
              IN  IF ins.ok
                  THEN FirstPass(ins.rows, nodes, i + 1, imported_ids \cup {node.id})
                  ELSE FirstPass(items, nodes, i + 1, imported_ids)

\* import_items, lines 356-371: the second pass over nodes[i..].
RECURSIVE SecondPass(_, _, _, _)
SecondPass(items, nodes, i, imported_ids) ==
    IF i > Len(nodes) THEN items
    ELSE LET node == nodes[i] IN
         IF node.id \notin imported_ids THEN SecondPass(items, nodes, i + 1, imported_ids)
         ELSE IF node.parent_id # NULL /\ node.parent_id \in imported_ids
         THEN SecondPass(UpdateParent(items, node.parent_id, node.id), nodes, i + 1,
                         imported_ids)
         ELSE SecondPass(items, nodes, i + 1, imported_ids)

KeepOrphans(items, nodes, imported_ids) == items
RestoreParents(items, nodes, imported_ids) == SecondPass(items, nodes, 1, imported_ids)

import_items(db, nodes) ==
    LET first == FirstPass(db.items, nodes, 1, {}) IN
    [db EXCEPT !.items = RestoreParents(first.items, nodes, first.imported_ids)]

\* import_tags, lines 376-401.
RECURSIVE import_tags_from(_, _, _)
import_tags_from(rows, tags, i) ==
    IF i > Len(tags) THEN rows
    ELSE IF \E r \in rows : r.id = tags[i].id THEN import_tags_from(rows, tags, i + 1)
    ELSE import_tags_from(rows \cup {[id |-> tags[i].id, name |-> tags[i].name]},
                          tags, i + 1)
import_tags(db, tags) == [db EXCEPT !.tags = import_tags_from(@, tags, 1)]

\* import_item_tags, lines 403-425: a row that is already there is skipped.
import_item_tags(db, associations) ==
    [db EXCEPT !.item_tags =
        @ \cup {[item_id |-> associations[i].node_id, tag_id |-> associations[i].tag_id] :
                    i \in 1..Len(associations)}]

\* extract_nodes, lines 155-237: the owner's nodes except smart folders.
RECURSIVE extract_nodes_from(_, _)
extract_nodes_from(nodes, i) ==
    IF i > Len(nodes) THEN <<>>
    ELSE IF nodes[i].node_type = "smart_folder" THEN extract_nodes_from(nodes, i + 1)
    ELSE <<nodes[i]>> \o extract_nodes_from(nodes, i + 1)
extract_nodes(source) == extract_nodes_from(source.nodes, 1)

\* extract_node_tags, lines 268-293: associations of the nodes extract_nodes keeps.
RECURSIVE extract_node_tags_from(_, _, _)
extract_node_tags_from(assocs, kept, i) ==
    IF i > Len(assocs) THEN <<>>
    ELSE IF assocs[i].node_id \in kept
    THEN <<assocs[i]>> \o extract_node_tags_from(assocs, kept, i + 1)
    ELSE extract_node_tags_from(assocs, kept, i + 1)
extract_node_tags(source) ==
    extract_node_tags_from(source.node_tags,
        {source.nodes[i].id : i \in {j \in 1..Len(source.nodes) :
                                        source.nodes[j].node_type # "smart_folder"}}, 1)

\* create_backup, lines 132-149, at second `now`.
BackupName(now) == "directgtd_backup_" \o Timestamp(now) \o ".sqlite"
create_backup(f, now) ==
    IF ~Exists(f, Import_DIRECTGTD_DB_PATH) THEN [fs |-> f, ret |-> <<>>, raised |-> FALSE]
    ELSE LET made == Makedirs(f, Import_BACKUP_DIR)
             backup_path == Append(Import_BACKUP_DIR, BackupName(now))
             copied == Copy2(made.fs, Import_DIRECTGTD_DB_PATH, backup_path)
         IN  IF ~made.ok THEN [fs |-> made.fs, ret |-> <<>>, raised |-> TRUE]
             ELSE IF ~copied.ok THEN [fs |-> copied.fs, ret |-> <<>>, raised |-> TRUE]
             ELSE [fs |-> copied.fs, ret |-> backup_path, raised |-> FALSE]

\* list_backups of restore_from_backup.py, lines 20-40: the .sqlite files of
\* its backup directory (as a set; the order of the listing is not kept).
list_backups(f) ==
    IF ~Exists(f, Restore_BACKUP_DIR) THEN {}
    ELSE {p \in Children(f, Restore_BACKUP_DIR) : EndsWith(p[Len(p)], ".sqlite")}

\* restore_backup, lines 42-58, at second `now`.
PreRestoreName(now) == "directgtd_pre_restore_" \o Timestamp(now) \o ".sqlite"
restore_backup(f, backup_path, now) ==
    IF ~Exists(f, backup_path) THEN Outcome(f, "False")
    ELSE LET saved ==
                 IF Exists(f, Restore_DIRECTGTD_DB_PATH)
                 THEN Copy2(f, Restore_DIRECTGTD_DB_PATH,
                            Append(Restore_BACKUP_DIR, PreRestoreName(now)))
                 ELSE [ok |-> TRUE, fs |-> f]
             restored == Copy2(saved.fs, backup_path, Restore_DIRECTGTD_DB_PATH)
         IN  IF ~saved.ok THEN Outcome(saved.fs, "raised")
             ELSE IF ~restored.ok THEN Outcome(restored.fs, "raised")
             ELSE Outcome(restored.fs, "True")

----------------------------------------------------------------------------
(* A run of the importer's main, statement by statement of lines 452-564 *)

\* The owner's FastGTD nodes: up to three, the i-th with the i-th id, each of a
\* supported type, a smart folder, or a type the mapping does not know, with
\* no parent or any of the three ids as parent.
NodeIds == <<"a", "b", "c">>
NodeTypes == {"task", "smart_folder", "artifact"}
NodeAt(i) ==
    {[id |-> NodeIds[i], title |-> "node " \o NodeIds[i], node_type |-> t, parent_id |-> q] :
        t \in NodeTypes, q \in {NULL} \cup {NodeIds[j] : j \in 1..Len(NodeIds)}}
NodeLists ==
    {<<>>} \cup {<<x>> : x \in NodeAt(1)}
        \cup {<<x, y>> : x \in NodeAt(1), y \in NodeAt(2)}
        \cup {<<x, y, z>> : x \in NodeAt(1), y \in NodeAt(2), z \in NodeAt(3)}

\* The owner has no tag, or one tag put on node a.
TheTag == [id |-> "t1", name |-> "home"]
Sources ==
    {[nodes |-> nodes, tags |-> <<>>, node_tags |-> <<>>] : nodes \in NodeLists}
        \cup {[nodes |-> nodes, tags |-> <<TheTag>>,
               node_tags |-> <<[node_id |-> "a", tag_id |-> "t1"]>>] : nodes \in NodeLists}

\* The DirectGTD database before the import: empty, or holding one item
\* under an id that the source uses too.
OldItem(id) == [id |-> id, title |-> "old", item_type |-> "Task", parent_id |-> NULL]
OldDbs == {EmptyDb} \cup {[EmptyDb EXCEPT !.items = {OldItem(NodeIds[i])}] : i \in 1..Len(NodeIds)}

\* The home directory: the app's container, with its database once the app
\* has run, and with the backups directory once a backup was made.
ImportHome == Makedirs((ProjectRoot :> Dir), Parent(Import_DIRECTGTD_DB_PATH)).fs
ImportHomes ==
    {ImportHome}
        \cup {Put(ImportHome, Import_DIRECTGTD_DB_PATH, File(EmptyDb))}
        \cup {Put(Put(ImportHome, Import_BACKUP_DIR, Dir), Import_DIRECTGTD_DB_PATH, File(db)) :
                db \in OldDbs \ {EmptyDb}}

InitImport ==
    /\ fs \in ImportHomes
    /\ pg \in Sources
    /\ imp = IdleImport
    /\ clock = 0
    /\ last = NoEvent
    /\ prev = NoSummary
    /\ trip = NoTrip
    /\ calls = 0
    /\ edits = 0
    /\ procs = [p \in ProcIds |-> IdleProc]

\* str.lower() of what the operator types at the prompt.
Answers == {"yes", "YES", "no"}
Lower(response) == IF response = "YES" THEN "yes" ELSE response

\* Lines 458-484: the configuration is valid as shipped; connect_fastgtd
\* raises when the server is not there, and the run is cancelled when the
\* lookup by email finds no user.
ImportConnect(found) ==
    /\ imp.pc = "idle"
    /\ imp' = [imp EXCEPT !.pc = CASE found = "user" -> "prompt"
                                  [] found = "no_user" -> "cancelled"
                                  [] found = "no_server" -> "raised"]
    /\ UNCHANGED <<fs, clock, last, prev, trip, calls, edits, procs, pg>>

\* Lines 494-499: the confirmation prompt.
ImportAnswer(response) ==
    /\ imp.pc = "prompt"
    /\ imp' = [imp EXCEPT !.pc = IF Lower(response) # "yes" THEN "cancelled"
                                 ELSE "create_backup"]
    /\ UNCHANGED <<fs, clock, last, prev, trip, calls, edits, procs, pg>>

\* Line 506: backup_path = create_backup()
ImportCreateBackup ==
    /\ imp.pc = "create_backup"
    /\ LET out == create_backup(fs, clock) IN
       /\ fs' = out.fs
       /\ imp' = [imp EXCEPT !.pc = IF out.raised THEN "raised" ELSE "connect_directgtd",
                             !.backup_path = out.ret,
                             !.backed = out.ret # <<>>]
    /\ UNCHANGED <<clock, last, prev, trip, calls, edits, procs, pg>>

\* Line 513: connect_directgtd(), lines 121-130.
ConnectRegardless(f) == TRUE
DatabaseFound(f) == Exists(f, Import_DIRECTGTD_DB_PATH)
ImportConnectDirectGTD ==
    /\ imp.pc = "connect_directgtd"
    /\ imp' = [imp EXCEPT !.pc = IF DatabaseFound(fs) THEN "extract" ELSE "raised"]
    /\ UNCHANGED <<fs, clock, last, prev, trip, calls, edits, procs, pg>>

\* Lines 520-522.
ImportExtract ==
    /\ imp.pc = "extract"
    /\ imp' = [imp EXCEPT !.pc = "import_items",
                          !.nodes = extract_nodes(pg),
                          !.tags = pg.tags,
                          !.node_tags = extract_node_tags(pg)]
    /\ UNCHANGED <<fs, clock, last, prev, trip, calls, edits, procs, pg>>

\* The database the connection of line 513 writes to.
Database(f) ==
    IF IsFileAt(f, Import_DIRECTGTD_DB_PATH) THEN f[Import_DIRECTGTD_DB_PATH].text
    ELSE EmptyDb

\* Lines 529-531: the three import calls, each ending with a commit to the
\* database file.
Committed(db) == Put(fs, Import_DIRECTGTD_DB_PATH, File(db))

ImportItems ==
    /\ imp.pc = "import_items"
    /\ LET db == import_items(Database(fs), imp.nodes) IN
       /\ fs' = Committed(db)
       /\ imp' = [imp EXCEPT !.pc = "import_tags", !.wrote = @ \/ db # Database(fs)]
    /\ UNCHANGED <<clock, last, prev, trip, calls, edits, procs, pg>>

ImportTags ==
    /\ imp.pc = "import_tags"
    /\ LET db == import_tags(Database(fs), imp.tags) IN
       /\ fs' = Committed(db)
       /\ imp' = [imp EXCEPT !.pc = "import_item_tags", !.wrote = @ \/ db # Database(fs)]
    /\ UNCHANGED <<clock, last, prev, trip, calls, edits, procs, pg>>

ImportItemTags ==
    /\ imp.pc = "import_item_tags"
    /\ LET db == import_item_tags(Database(fs), imp.node_tags) IN
       /\ fs' = Committed(db)
       /\ imp' = [imp EXCEPT !.pc = "close", !.wrote = @ \/ db # Database(fs)]
    /\ UNCHANGED <<clock, last, prev, trip, calls, edits, procs, pg>>

\* Lines 538-560.
ImportClose ==
    /\ imp.pc = "close"
    /\ imp' = [imp EXCEPT !.pc = "done"]
    /\ UNCHANGED <<fs, clock, last, prev, trip, calls, edits, procs, pg>>

NextImport ==
    \/ \E found \in {"user", "no_user", "no_server"} : ImportConnect(found)
    \/ \E response \in Answers : ImportAnswer(response)
    \/ ImportCreateBackup
    \/ ImportConnectDirectGTD
    \/ ImportExtract
    \/ ImportItems
    \/ ImportTags
    \/ ImportItemTags
    \/ ImportClose
    \/ Tick

SpecImport == InitImport /\ [][NextImport]_vars

----------------------------------------------------------------------------
(* Vocabulary of the importer's properties *)

ImportsDone == imp.pc \in {"import_tags", "import_item_tags", "close", "done"}

\* The items table before the run, as the backup holds it, and now.
ItemsBefore == fs[imp.backup_path].text.items
ItemsNow == Database(fs).items

\* The ids of the rows import_items inserted.
Inserted == {r.id : r \in ItemsNow} \ {r.id : r \in ItemsBefore}

(* C22: after import_items on the extracted nodes, in whatever order, every
   inserted row carries the id (and title and mapped type) of one source
   node, there is one row per id, the row's parent_id is the node's parent
   when that parent was inserted too, and is null when the node has no parent
   or its parent was not inserted. *)
C22_ParentLinksRepaired ==
    (ImportsDone /\ imp.backed) =>
        \A r \in ItemsNow :
            r.id \in Inserted =>
                /\ Cardinality({q \in ItemsNow : q.id = r.id}) = 1
                /\ \E i \in 1..Len(imp.nodes) :
                      LET node == imp.nodes[i] IN
                      /\ node.id = r.id /\ node.title = r.title
                      /\ node.node_type \in {"task"} /\ r.item_type = "Task"
                      /\ r.parent_id = IF node.parent_id \in Inserted
                                       THEN node.parent_id ELSE NULL

C22_Witness ==
    /\ imp.pc = "done" /\ imp.backed
    /\ Len(imp.nodes) = 3
    /\ imp.nodes[1].parent_id = "b" /\ imp.nodes[2].parent_id = "c"
    /\ Inserted = {"a", "b"}
    /\ OldItem("c") \in ItemsNow
    /\ [id |-> "a", title |-> "node a", item_type |-> "Task", parent_id |-> "b"] \in ItemsNow
    /\ [id |-> "b", title |-> "node b", item_type |-> "Task", parent_id |-> NULL] \in ItemsNow

(* C23: in a run of the importer's main no row is inserted or updated unless
   the run has made its timestamped backup of the database file before, and
   the backup holds the database as it was; without a database file no backup
   is made and the run stops before the import steps. *)
C23_BackupBeforeWrite ==
    /\ imp.wrote
          => /\ imp.backed
             /\ imp.backup_path \in Children(fs, Import_BACKUP_DIR)
             /\ \E t \in 0..clock : imp.backup_path[Len(imp.backup_path)]
                                       = "directgtd_backup_" \o Timestamp(t) \o ".sqlite"
    /\ (imp.backed /\ ~imp.wrote)
          => fs[imp.backup_path] = fs[Import_DIRECTGTD_DB_PATH]
    /\ Import_DIRECTGTD_DB_PATH \notin DOMAIN fs
          => /\ ~imp.backed /\ ~imp.wrote
             /\ Children(fs, Import_BACKUP_DIR) = {}
             /\ imp.pc \in {"idle", "prompt", "cancelled", "create_backup",
                            "connect_directgtd", "raised"}

C23_Witness ==
    /\ imp.pc = "done" /\ imp.wrote /\ imp.backed
    /\ fs[imp.backup_path].text = [EmptyDb EXCEPT !.items = {OldItem("a")}]
    /\ Cardinality(ItemsNow) = 3
    /\ Database(fs).tags # {}

(* C25: the backup the importer's create_backup wrote is among the backups the
   restore tool's list_backups returns, and restore_backup overwrites the
   database file the importer wrote to. *)
C25_RestoreUndoesImport ==
    imp.backed
        => /\ imp.backup_path \in list_backups(fs)
           /\ Restore_DIRECTGTD_DB_PATH = Import_DIRECTGTD_DB_PATH

----------------------------------------------------------------------------
(* Runs of restore_from_backup.py *)

\* Databases told apart by their items.
RestoreDbs == OldDbs

\* The home directory of the restore tool: the app's directory with or without
\* the current database and the backups directory, which holds one or two
\* earlier backups.
RestoreHome ==
    Makedirs((ProjectRoot :> Dir), Parent(Restore_DIRECTGTD_DB_PATH)).fs
EarlierBackup(n, i) ==
    Append(Restore_BACKUP_DIR, n) :> File([EmptyDb EXCEPT !.items = {OldItem(NodeIds[i])}])
OneBackup ==
    (Restore_BACKUP_DIR :> Dir)
        @@ EarlierBackup("directgtd_backup_20241230_120000.sqlite", 1)
TwoBackups ==
    OneBackup @@ EarlierBackup("directgtd_pre_restore_20241231_120000.sqlite", 2)
        @@ (Append(Restore_BACKUP_DIR, "notes.txt") :> File(EmptyDb))
RestoreHomes ==
    LET dbs == {RestoreHome, Put(RestoreHome, Restore_DIRECTGTD_DB_PATH, File(EmptyDb))}
    IN  dbs \cup {f @@ OneBackup : f \in dbs} \cup {f @@ TwoBackups : f \in dbs}

\* The files the backup directory comes to hold.
RestoreChoices ==
    (DOMAIN TwoBackups) \cup {Append(Restore_BACKUP_DIR, PreRestoreName(t)) : t \in 0..MaxClock}

\* A path that names no file.
MissingBackup == Append(Restore_BACKUP_DIR, "directgtd_backup_20240101_000000.sqlite")

InitRestore ==
    /\ fs \in RestoreHomes
    /\ clock = 0
    /\ last = NoEvent
    /\ prev = NoSummary
    /\ trip = NoTrip
    /\ calls = 0
    /\ edits = 0
    /\ procs = [p \in ProcIds |-> IdleProc]
    /\ pg = NoSource
    /\ imp = IdleImport

\* The app is used: it creates or changes its database.
AppWrites(db) ==
    /\ edits < MaxEdits
    /\ ~(IsFileAt(fs, Restore_DIRECTGTD_DB_PATH) /\ fs[Restore_DIRECTGTD_DB_PATH].text = db)
    /\ fs' = Put(fs, Restore_DIRECTGTD_DB_PATH, File(db))
    /\ last' = [NoEvent EXCEPT !.op = "app"]
    /\ edits' = edits + 1
    /\ UNCHANGED <<clock, prev, trip, calls, procs, pg, imp>>

\* main, lines 60-125: the operator picks one of the listed backups and types
\* the confirmation; restore_backup runs when it is 'YES'.
RunRestore(backup_path, confirm) ==
    /\ calls < MaxCalls
    /\ backup_path \in list_backups(fs)
    /\ LET out == IF confirm # "YES" THEN Outcome(fs, "cancelled")
                  ELSE restore_backup(fs, backup_path, clock) IN
       /\ fs' = out.fs
       /\ last' = [op |-> "restore", argv |-> <<backup_path>>, ret |-> out.ret,
                   exit |-> 0, now |-> clock, before |-> fs]
    /\ calls' = calls + 1
    /\ UNCHANGED <<clock, prev, trip, edits, procs, pg, imp>>

\* restore_backup called with a path that is not there.
RestoreMissing ==
    /\ calls < MaxCalls
    /\ LET out == restore_backup(fs, MissingBackup, clock) IN
       /\ fs' = out.fs
       /\ last' = [op |-> "restore", argv |-> <<MissingBackup>>, ret |-> out.ret,
                   exit |-> 0, now |-> clock, before |-> fs]
    /\ calls' = calls + 1
    /\ UNCHANGED <<clock, prev, trip, edits, procs, pg, imp>>

NextRestore ==
    \/ \E db \in RestoreDbs : AppWrites(db)
    \/ \E backup_path \in RestoreChoices, confirm \in {"YES", "yes"} :
          RunRestore(backup_path, confirm)
    \/ RestoreMissing
    \/ Tick

SpecRestore == InitRestore /\ [][NextRestore]_vars

\* The last event was restore_backup(path), called with the workspace
\* last.before.
Restored == last.op = "restore" /\ last.ret # "cancelled"
ChosenBackup == last.argv[1]

(* C24: restore_backup on a path that is not there returns False and changes
   nothing; on one that is there it returns True, the database file then
   holds what the chosen backup held, and when there was a database file
   before, what it held is in a new file directgtd_pre_restore_<TS>.sqlite
   of the backup directory. *)
C24_RestoreKeepsBoth ==
    Restored =>
        IF ChosenBackup \notin DOMAIN last.before
        THEN last.ret = "False" /\ fs = last.before
        ELSE /\ last.ret = "True"
             /\ fs[Restore_DIRECTGTD_DB_PATH] = last.before[ChosenBackup]
             /\ Restore_DIRECTGTD_DB_PATH \in DOMAIN last.before
                   => LET saved == Append(Restore_BACKUP_DIR, PreRestoreName(last.now)) IN
                      /\ saved \notin DOMAIN last.before
                      /\ saved \in DOMAIN fs
                      /\ fs[saved] = last.before[Restore_DIRECTGTD_DB_PATH]

====
